---- MODULE Spec2Model ----
(***************************************************************************)
(* Model of scripts/download-additional-data.py: the extraction of place   *)
(* candidates from the parsed _pageData document and their merge into      *)
(* map.json.                                                               *)
(*                                                                         *)
(* Numbers are fixed-point integers in units of 10^-6 degree.  Strings are *)
(* sequences of one-character strings, so that prefix and pattern tests    *)
(* are computed on the characters.                                         *)
(***************************************************************************)
EXTENDS Integers, Sequences, FiniteSets, TLC

(***************************************************************************)
(* Parsed JSON values (what json.loads returns): None, bool, int/float,    *)
(* str, list.  Every value has the same four fields; the unused ones are   *)
(* 0 or <<>>.  A bool keeps its integer value in n, as in Python, where    *)
(* bool is a subclass of int (True == 1, False == 0).                      *)
(***************************************************************************)
Val(t, n, s, c) == [t |-> t, n |-> n, s |-> s, c |-> c]

None == Val("null", 0, <<>>, <<>>)

Bool(b) == Val("bool", IF b THEN 1 ELSE 0, <<>>, <<>>)

Num(n) == Val("num", n, <<>>, <<>>)

Str(s) == Val("str", 0, s, <<>>)

List(c) == Val("list", 0, <<>>, c)

\* isinstance(v, list)
IsList(v) == v.t = "list"

\* isinstance(v, str)
IsStr(v) == v.t = "str"

\* v is None
IsNone(v) == v.t = "null"

\* isinstance(v, (int, float)): True for a bool as well
IsIntOrFloat(v) == v.t \in {"num", "bool"}

\* Python truth value: `if v:`
Truthy(v) ==
    CASE v.t = "null" -> FALSE
      [] v.t = "bool" -> v.n = 1
      [] v.t = "num"  -> v.n # 0
      [] v.t = "str"  -> v.s # <<>>
      [] v.t = "list" -> v.c # <<>>
      [] v.t = "tuple" -> v.c # <<>>

\* str.startswith(prefix)
StartsWith(s, prefix) ==
    /\ Len(s) >= Len(prefix)
    /\ SubSeq(s, 1, Len(prefix)) = prefix

HexChars ==
    {"0", "1", "2", "3", "4", "5", "6", "7", "8", "9", "A", "B", "C", "D", "E", "F"}

\* re.match(r'^[A-F0-9]{16}$', s): sixteen characters of the class, then the
\* end of the string; `$` also matches just before a newline that ends the
\* string.
MatchesFeatureId(s) ==
    /\ Len(s) >= 16
    /\ \A i \in 1..16 : s[i] \in HexChars
    /\ \/ Len(s) = 16
       \/ Len(s) = 17 /\ s[17] = "\n"

(***************************************************************************)
(* find_feature_records                                                    *)
(***************************************************************************)
\* A locator that walks one level further.
FeatureDepthExceededOffByOne(depth) == depth > 21

\* `if depth > 20: return features`
FeatureDepthExceeded(depth) == depth > 20

\* `len(data) >= 6` and `isinstance(data[0], str) and re.match(...)`
LooksLikeFeatureRecord(data) ==
    /\ Len(data.c) >= 6
    /\ IsStr(data.c[1])
    /\ MatchesFeatureId(data.c[1].s)

RECURSIVE find_feature_records(_, _), ffr_items(_, _, _)

find_feature_records(data, depth) ==
    IF FeatureDepthExceeded(depth) THEN <<>>
    ELSE IF ~IsList(data) THEN <<>>
    ELSE IF LooksLikeFeatureRecord(data) THEN <<data>>
    ELSE ffr_items(data.c, 1, depth)

\* `for item in data: if isinstance(item, list): features.extend(...)`,
\* from the i-th item on
ffr_items(items, i, depth) ==
    IF i > Len(items) THEN <<>>
    ELSE (IF IsList(items[i])
          THEN find_feature_records(items[i], depth + 1)
          ELSE <<>>) \o ffr_items(items, i + 1, depth)

\* The depth arguments of every call find_feature_records(data, depth) makes,
\* its own included: the same control flow, collecting the counters.
RECURSIVE ffr_call_depths(_, _)

ffr_call_depths(data, depth) ==
    {depth} \cup
    (IF FeatureDepthExceeded(depth) \/ ~IsList(data) THEN {}
     ELSE IF LooksLikeFeatureRecord(data) THEN {}
     ELSE UNION {ffr_call_depths(data.c[i], depth + 1) :
                    i \in {j \in DOMAIN data.c : IsList(data.c[j])}})

(***************************************************************************)
(* Positions in a document                                                 *)
(***************************************************************************)
\* The paths (index sequences) of every value in v, v itself at <<>>.
RECURSIVE PathsOf(_)

PathsOf(v) ==
    {<<>>} \cup
    (IF IsList(v)
     THEN UNION {{<<i>> \o p : p \in PathsOf(v.c[i])} : i \in DOMAIN v.c}
     ELSE {})

RECURSIVE At(_, _)

At(v, p) == IF p = <<>> THEN v ELSE At(v.c[Head(p)], Tail(p))

\* p comes before q in pre-order: p is a proper prefix of q, or p is to the
\* left of q at the first index where they differ.
PreOrderBefore(p, q) ==
    \/ Len(p) < Len(q) /\ SubSeq(q, 1, Len(p)) = p
    \/ \E k \in 1..Len(p) :
          /\ k <= Len(q)
          /\ SubSeq(p, 1, k - 1) = SubSeq(q, 1, k - 1)
          /\ p[k] < q[k]

RECURSIVE InPreOrder(_)

InPreOrder(S) ==
    IF S = {} THEN <<>>
    ELSE LET first == CHOOSE p \in S : \A q \in S \ {p} : PreOrderBefore(p, q)
         IN  <<first>> \o InPreOrder(S \ {first})

ValuesAt(v, paths) == [i \in 1..Len(paths) |-> At(v, paths[i])]

(***************************************************************************)
(* find_coordinates                                                        *)
(***************************************************************************)
\* One degree in the fixed-point unit.
Scale == 10 ^ 6

\* The number a value compares and rounds as: True is 1, False is 0.
NumValue(v) == IF v.t = "bool" THEN v.n * Scale ELSE v.n

\* A Python tuple.
Tuple(c) == Val("tuple", 0, <<>>, c)

\* `if depth > 10: return None`
CoordDepthExceeded(depth) == depth > 10

\* `isinstance(geometry[0], (int, float)) and isinstance(geometry[1], (int, float))`
BothNumbers(geometry) ==
    IsIntOrFloat(geometry.c[1]) /\ IsIntOrFloat(geometry.c[2])

\* `-90 <= lat <= 90 and -180 <= lng <= 180`
ValidRanges(lat, lng) ==
    /\ -90 * Scale <= NumValue(lat) /\ NumValue(lat) <= 90 * Scale
    /\ -180 * Scale <= NumValue(lng) /\ NumValue(lng) <= 180 * Scale

\* `len(geometry) == 2` and the two tests above
IsCoordinatePair(geometry) ==
    /\ Len(geometry.c) = 2
    /\ BothNumbers(geometry)
    /\ ValidRanges(geometry.c[1], geometry.c[2])

RECURSIVE find_coordinates(_, _), fc_items(_, _, _)

find_coordinates(geometry, depth) ==
    IF CoordDepthExceeded(depth) THEN None
    ELSE IF ~IsList(geometry) THEN None
    ELSE IF IsCoordinatePair(geometry)
         THEN Tuple(<<geometry.c[1], geometry.c[2]>>)
    ELSE fc_items(geometry.c, 1, depth)

\* `for item in geometry: if isinstance(item, list): ... if coords: return coords`
fc_items(items, i, depth) ==
    IF i > Len(items) THEN None
    ELSE LET coords == IF IsList(items[i])
                       THEN find_coordinates(items[i], depth + 1)
                       ELSE None
         IN  IF coords.t = "tuple" THEN coords
             ELSE fc_items(items, i + 1, depth)

(***************************************************************************)
(* find_place_id                                                           *)
(***************************************************************************)
ChIJ == <<"C", "h", "I", "J">>

Ej == <<"E", "j">>

\* A prefix test that knows only the 'ChIJ' family.
HasPlaceIdPrefixChIJOnly(s) == StartsWith(s, ChIJ)

\* `s.startswith('ChIJ') or s.startswith('Ej')`
HasPlaceIdPrefix(s) == StartsWith(s, ChIJ) \/ StartsWith(s, Ej)

\* `if depth > 15: return None`
PlaceIdDepthExceeded(depth) == depth > 15

RECURSIVE find_place_id(_, _), fpi_items(_, _, _)

find_place_id(data, depth) ==
    IF PlaceIdDepthExceeded(depth) THEN None
    ELSE IF IsStr(data)
         THEN (IF HasPlaceIdPrefix(data.s) THEN data ELSE None)
    ELSE IF IsList(data) THEN fpi_items(data.c, 1, depth)
    ELSE None

\* `for item in data: result = find_place_id(item, depth + 1); if result: return result`
fpi_items(items, i, depth) ==
    IF i > Len(items) THEN None
    ELSE LET result == find_place_id(items[i], depth + 1)
         IN  IF Truthy(result) THEN result
             ELSE fpi_items(items, i + 1, depth)

(***************************************************************************)
(* extract_place_info                                                      *)
(***************************************************************************)
NameKey == <<"n", "a", "m", "e">>

DescriptionKey == <<"d", "e", "s", "c", "r", "i", "p", "t", "i", "o", "n">>

\* A field scan that keeps the first name it meets.
scan_field_first_name(field, acc) ==
    IF ~IsList(field) THEN acc
    ELSE IF Len(field.c) < 2 THEN acc
    ELSE LET field_name == field.c[1]
             value == field.c[2]
         IN  IF /\ IsStr(field_name) /\ field_name.s = NameKey
                /\ IsList(value) /\ Len(value.c) > 0
             THEN (IF IsNone(acc.name) THEN [acc EXCEPT !.name = value.c[1]] ELSE acc)
             ELSE IF /\ IsStr(field_name) /\ field_name.s = DescriptionKey
                     /\ IsList(value) /\ Len(value.c) > 0
             THEN [acc EXCEPT !.description = value.c[1]]
             ELSE IF IsNone(field_name) /\ Len(field.c) >= 3
             THEN (IF IsStr(value) /\ HasPlaceIdPrefix(value.s)
                   THEN [acc EXCEPT !.place_id = value]
                   ELSE acc)
             ELSE acc

\* One pass of the body of `for field in fields:` over the running
\* (name, description, place_id).
scan_field(field, acc) ==
    IF ~IsList(field) THEN acc
    ELSE IF Len(field.c) < 2 THEN acc
    ELSE LET field_name == field.c[1]
             value == field.c[2]
         IN  IF /\ IsStr(field_name) /\ field_name.s = NameKey
                /\ IsList(value) /\ Len(value.c) > 0
             THEN [acc EXCEPT !.name = value.c[1]]
             ELSE IF /\ IsStr(field_name) /\ field_name.s = DescriptionKey
                     /\ IsList(value) /\ Len(value.c) > 0
             THEN [acc EXCEPT !.description = value.c[1]]
             ELSE IF IsNone(field_name) /\ Len(field.c) >= 3
             THEN (IF IsStr(value) /\ HasPlaceIdPrefix(value.s)
                   THEN [acc EXCEPT !.place_id = value]
                   ELSE acc)
             ELSE acc

RECURSIVE scan_fields(_, _, _)

scan_fields(fields, i, acc) ==
    IF i > Len(fields) THEN acc
    ELSE scan_fields(fields, i + 1, scan_field(fields[i], acc))

\* `if not place_id: place_id = find_place_id(fields)`
place_id_of(fields, scanned) ==
    IF ~Truthy(scanned.place_id) THEN find_place_id(fields, 0)
    ELSE scanned.place_id

\* The dict extract_place_info returns.
PlaceInfo(feature_id, name, description, lat, lng, place_id) ==
    [t |-> "dict", feature_id |-> feature_id, name |-> name,
     description |-> description, lat |-> lat, lng |-> lng,
     place_id |-> place_id]

\* Returns None or a PlaceInfo.  An index or type error on a value that is
\* not a list of at least two elements is caught by `except Exception`.
extract_place_info(feature_record) ==
    IF ~IsList(feature_record) \/ Len(feature_record.c) < 2 THEN None
    ELSE
    LET feature_id == feature_record.c[1]
        geometry == feature_record.c[2]
        fields == IF Len(feature_record.c) > 5 THEN feature_record.c[6]
                  ELSE List(<<>>)
    IN  IF ~IsList(fields) THEN None
        ELSE
        LET coords == IF IsList(geometry) THEN find_coordinates(geometry, 0)
                      ELSE None
            lat == IF coords.t = "tuple" THEN coords.c[1] ELSE None
            lng == IF coords.t = "tuple" THEN coords.c[2] ELSE None
            scanned == scan_fields(fields.c, 1,
                          [name |-> None, description |-> None, place_id |-> None])
            place_id == place_id_of(fields, scanned)
        IN  IF Truthy(scanned.name)
            THEN PlaceInfo(feature_id, scanned.name, scanned.description,
                           lat, lng, place_id)
            ELSE None

(***************************************************************************)
(* extract_places_with_ids                                                 *)
(***************************************************************************)
RECURSIVE places_of_features(_, _)

\* `for feature in found_features: ... if place_info: places.append(place_info)`
places_of_features(found_features, i) ==
    IF i > Len(found_features) THEN <<>>
    ELSE LET place_info == extract_place_info(found_features[i])
         IN  (IF place_info.t = "dict" THEN <<place_info>> ELSE <<>>)
             \o places_of_features(found_features, i + 1)

RECURSIVE places_of_layers(_, _)

\* `for layer_idx, layer in enumerate(layers): if not isinstance(layer, list): continue`
places_of_layers(layers, i) ==
    IF i > Len(layers) THEN <<>>
    ELSE (IF IsList(layers[i])
          THEN places_of_features(find_feature_records(layers[i], 0), 1)
          ELSE <<>>) \o places_of_layers(layers, i + 1)

\* page_data is a list; map_data[6] is taken to be a list when present.
extract_places_with_ids(page_data) ==
    IF Len(page_data.c) < 2 THEN <<>>
    ELSE LET map_data == page_data.c[2]
         IN  IF ~IsList(map_data) \/ Len(map_data.c) < 7 THEN <<>>
             ELSE places_of_layers(map_data.c[7].c, 1)

(***************************************************************************)
(* round_coordinates and update_map_json                                   *)
(***************************************************************************)
\* round(x, 5) on the fixed-point value: to the nearest multiple of 10^-5,
\* a value exactly half-way going to the even multiple.
RoundTo5(n) ==
    LET unit == 10
        r == n % unit
        down == n - r
    IN  IF r * 2 < unit THEN down
        ELSE IF r * 2 > unit THEN down + unit
        ELSE IF (down \div unit) % 2 = 0 THEN down
        ELSE down + unit

\* Returns None or the tuple (round(lat, 5), round(lng, 5)).
round_coordinates(lat, lng) ==
    IF IsNone(lat) \/ IsNone(lng) THEN None
    ELSE Tuple(<<Num(RoundTo5(NumValue(lat))), Num(RoundTo5(NumValue(lng)))>>)

\* `if place.get('place_id') and place.get('lat') is not None and
\*  place.get('lng') is not None`
UsableCandidate(place) ==
    /\ Truthy(place.place_id)
    /\ ~IsNone(place.lat)
    /\ ~IsNone(place.lng)

\* A lookup that keeps the first entry stored under a key.
put_lookup_keep_first(place_id_lookup, coords_key, entry) ==
    [k \in DOMAIN place_id_lookup \cup {coords_key} |->
        IF k \in DOMAIN place_id_lookup THEN place_id_lookup[k] ELSE entry]

\* `place_id_lookup[coords_key] = {...}`: a later assignment to the same key
\* replaces the earlier one.
put_lookup(place_id_lookup, coords_key, entry) ==
    [k \in DOMAIN place_id_lookup \cup {coords_key} |->
        IF k = coords_key THEN entry ELSE place_id_lookup[k]]

RECURSIVE build_lookup(_, _, _)

\* `for place in places_with_ids:` from the i-th candidate on
build_lookup(places_with_ids, i, place_id_lookup) ==
    IF i > Len(places_with_ids) THEN place_id_lookup
    ELSE LET place == places_with_ids[i]
             coords_key == round_coordinates(place.lat, place.lng)
         IN  build_lookup(places_with_ids, i + 1,
                 IF UsableCandidate(place) /\ Truthy(coords_key)
                 THEN put_lookup(place_id_lookup, coords_key,
                                 [place_id |-> place.place_id, name |-> place.name])
                 ELSE place_id_lookup)

EmptyLookup == [k \in {} |-> None]

\* place_data.get('coordinates')
coordinates_of(place_data) ==
    IF "coordinates" \in DOMAIN place_data THEN place_data.coordinates ELSE None

\* A key computed without swapping the catalog's [lng, lat] order.
catalog_key_unswapped(coords) == round_coordinates(coords.c[1], coords.c[2])

\* `lng, lat = coords[0], coords[1]; coords_key = round_coordinates(lat, lng)`
catalog_key(coords) == round_coordinates(coords.c[2], coords.c[1])

\* An assignment that rebuilds the place from the fields every place has and
\* loses the optional ones.
set_place_id_rebuilding(place_data, google_place_id) ==
    [k \in {"name", "id", "category", "coordinates", "googlePlaceId"} |->
        IF k = "googlePlaceId" THEN google_place_id ELSE place_data[k]]

\* `place_data['googlePlaceId'] = google_place_id`
set_place_id(place_data, google_place_id) ==
    [k \in DOMAIN place_data \cup {"googlePlaceId"} |->
        IF k = "googlePlaceId" THEN google_place_id ELSE place_data[k]]

\* A loop body without the `if 'googlePlaceId' in place_data` test.
visit_place_without_has_test(slug, st, place_id_lookup) ==
    LET place_data == st.map_data.places[slug]
        coords == coordinates_of(place_data)
    IN  IF Truthy(coords) /\ Len(coords.c) >= 2
        THEN LET coords_key == catalog_key(coords)
             IN  IF coords_key \in DOMAIN place_id_lookup
                 THEN [st EXCEPT !.map_data.places[slug] =
                                    set_place_id(place_data,
                                                 place_id_lookup[coords_key].place_id),
                                 !.updated_count = @ + 1]
                 ELSE [st EXCEPT !.not_matched_count = @ + 1]
        ELSE st

\* A loop body that assigns the identifier in the already-has branch too.
visit_place_overwriting(slug, st, place_id_lookup) ==
    LET place_data == st.map_data.places[slug]
        coords == coordinates_of(place_data)
    IN  IF Truthy(coords) /\ Len(coords.c) >= 2
        THEN LET coords_key == catalog_key(coords)
             IN  IF coords_key \in DOMAIN place_id_lookup
                 THEN IF "googlePlaceId" \in DOMAIN place_data
                      THEN [st EXCEPT !.map_data.places[slug] =
                                         set_place_id(place_data,
                                                      place_id_lookup[coords_key].place_id),
                                      !.already_has_count = @ + 1]
                      ELSE [st EXCEPT !.map_data.places[slug] =
                                         set_place_id(place_data,
                                                      place_id_lookup[coords_key].place_id),
                                      !.updated_count = @ + 1]
                 ELSE [st EXCEPT !.not_matched_count = @ + 1]
        ELSE st

\* One pass of the body of `for place_id, place_data in ...items():` over
\* the running map_data and counters.
visit_place(slug, st, place_id_lookup) ==
    LET place_data == st.map_data.places[slug]
        coords == coordinates_of(place_data)
    IN  IF Truthy(coords) /\ Len(coords.c) >= 2
        THEN LET coords_key == catalog_key(coords)
             IN  IF coords_key \in DOMAIN place_id_lookup
                 THEN IF "googlePlaceId" \in DOMAIN place_data
                      THEN [st EXCEPT !.already_has_count = @ + 1]
                      ELSE [st EXCEPT !.map_data.places[slug] =
                                         set_place_id(place_data,
                                                      place_id_lookup[coords_key].place_id),
                                      !.updated_count = @ + 1]
                 ELSE [st EXCEPT !.not_matched_count = @ + 1]
        ELSE st

RECURSIVE update_loop(_, _, _)

\* The loop over the places still to visit; each place is visited once and
\* the passes do not read one another's writes.
update_loop(todo, st, place_id_lookup) ==
    IF todo = {} THEN st
    ELSE LET slug == CHOOSE x \in todo : TRUE
         IN  update_loop(todo \ {slug},
                         visit_place(slug, st, place_id_lookup), place_id_lookup)

\* The in-memory effect of update_map_json: map_data after the loop and the
\* three counters.
merge(map_data, places_with_ids) ==
    update_loop(DOMAIN map_data.places,
                [map_data |-> map_data, updated_count |-> 0,
                 already_has_count |-> 0, not_matched_count |-> 0],
                build_lookup(places_with_ids, 1, EmptyLookup))

(***************************************************************************)
(* State                                                                   *)
(***************************************************************************)
VARIABLES
    pc,               \* where the program is
    arg,              \* the argument of the function being called
    ret,              \* what the call returned
    html,             \* the downloaded document
    page_data,        \* main's page_data
    places,           \* main's places
    places_with_ids,  \* the candidates handed to update_map_json
    map_data,         \* the catalog in memory
    map_path,         \* the path load_map_json returned
    files,            \* the files on disk
    counts,           \* updated_count, already_has_count, not_matched_count
    error,            \* the exception that ended the run
    start_files,      \* the files as the run began
    written,          \* the paths the run has written
    prev_updated      \* what the call before returned if it was given the
                      \* same candidates, -1 otherwise

callVars == <<pc, arg, ret>>

runVars == <<html, page_data, places, places_with_ids, map_data, map_path,
             files, counts, error, start_files, written, prev_updated>>

vars == <<pc, arg, ret, html, page_data, places, places_with_ids, map_data,
          map_path, files, counts, error, start_files, written, prev_updated>>

(***************************************************************************)
(* Inputs                                                                  *)
(***************************************************************************)
\* How many lists are wrapped around a value in the nested inputs.
MaxNest == 22

RECURSIVE Wrap(_, _)

\* v inside d one-element lists
Wrap(d, v) == IF d = 0 THEN v ELSE List(<<Wrap(d - 1, v)>>)

\* "44A273877D20D12D"
FeatureIdA ==
    <<"4", "4", "A", "2", "7", "3", "8", "7", "7", "D", "2", "0", "D", "1", "2", "D">>

\* "1A2B3C4D5E6F7081"
FeatureIdB ==
    <<"1", "A", "2", "B", "3", "C", "4", "D", "5", "E", "6", "F", "7", "0", "8", "1">>

\* [featureId, geometry, null, null, type, fields, titleTuple, numericIndex]
FeatureRecord(id, geometry, fields) ==
    List(<<id, geometry, None, None, Num(0), fields, List(<<>>), Num(0)>>)

ZeroCounts ==
    [updated_count |-> 0, already_has_count |-> 0, not_matched_count |-> 0]

NoFiles == [public |-> None, data |-> None, src |-> None]

\* The variables of a run of main, while only a function is being called.
RunIdle ==
    /\ html = None
    /\ page_data = None
    /\ places = <<>>
    /\ places_with_ids = <<>>
    /\ map_data = None
    /\ map_path = "none"
    /\ files = NoFiles
    /\ counts = ZeroCounts
    /\ error = "none"
    /\ start_files = NoFiles
    /\ written = {}
    /\ prev_updated = -1

(***************************************************************************)
(* Calls of find_feature_records                                           *)
(***************************************************************************)
LocatorBases ==
    {FeatureRecord(Str(FeatureIdA), None, List(<<>>)),
     \* five elements only
     List(<<Str(FeatureIdA), None, None, None, None>>),
     \* a feature record inside a feature record
     FeatureRecord(Str(FeatureIdA),
                   FeatureRecord(Str(FeatureIdB), None, List(<<>>)), List(<<>>)),
     \* a lower-case identifier, with a feature record inside
     FeatureRecord(Str(<<"a">> \o Tail(FeatureIdA)), None,
                   List(<<FeatureRecord(Str(FeatureIdB), None, List(<<>>))>>)),
     \* sixteen hex characters and a newline
     FeatureRecord(Str(FeatureIdA \o <<"\n">>), None, List(<<>>)),
     \* seventeen hex characters
     FeatureRecord(Str(FeatureIdA \o <<"0">>), None, List(<<>>)),
     \* fifteen hex characters
     FeatureRecord(Str(Tail(FeatureIdA)), None, List(<<>>)),
     \* a number where the identifier is
     FeatureRecord(Num(0), None, List(<<>>)),
     Str(FeatureIdA),
     None,
     List(<<>>)}

LocatorPairs ==
    {FeatureRecord(Str(FeatureIdA), None, List(<<>>)),
     FeatureRecord(Str(FeatureIdB), None, List(<<>>)),
     Str(FeatureIdA)}

LocatorDocs ==
    {Wrap(d, b) : d \in 0..MaxNest, b \in LocatorBases}
    \cup {List(<<Wrap(d, a), b>>) : d \in {0, 1, 19, 20}, a, b \in LocatorPairs}
    \cup {List(<<a, Wrap(d, List(<<b, a>>))>>) : d \in 18..20, a, b \in LocatorPairs}

LocatorInit ==
    /\ pc = "call"
    /\ arg \in LocatorDocs
    /\ ret = <<>>
    /\ RunIdle

CallFindFeatureRecords ==
    /\ pc = "call"
    /\ ret' = find_feature_records(arg, 0)
    /\ pc' = "returned"
    /\ UNCHANGED <<arg, runVars>>

LocatorNext == CallFindFeatureRecords

SpecLocator == LocatorInit /\ [][LocatorNext]_vars

\* The paths of the values of v that pass Test, lie at most maxDepth levels
\* below v and have no enclosing value that passes Test.
Topmost(v, Test(_), maxDepth) ==
    {p \in PathsOf(v) :
        /\ Len(p) <= maxDepth
        /\ Test(At(v, p))
        /\ \A k \in 0..(Len(p) - 1) : ~Test(At(v, SubSeq(p, 1, k)))}

\* The shape test as the specification words it: a sequence of at least 6
\* elements whose first is a string of exactly 16 characters from 0-9, A-F.
ShapeTest(v) ==
    /\ IsList(v)
    /\ Len(v.c) >= 6
    /\ IsStr(v.c[1])
    /\ Len(v.c[1].s) = 16
    /\ \A i \in 1..16 : v.c[1].s[i] \in HexChars

\* The test find_feature_records applies to a list.
CodeShapeTest(v) == IsList(v) /\ LooksLikeFeatureRecord(v)

DeepestPath(v) == CHOOSE p \in PathsOf(v) : \A q \in PathsOf(v) : Len(q) <= Len(p)

\* C5 (as claimed): find_feature_records returns, in document pre-order,
\* exactly the sequences that pass the specification's shape test and have no
\* enclosing sequence that passes it.
C5_LocatorResultAsClaimed ==
    pc = "returned" =>
        ret = ValuesAt(arg, InPreOrder(Topmost(arg, ShapeTest, Len(DeepestPath(arg)))))

\* C6: find_feature_records never calls itself with a depth counter above 21;
\* it returns, in pre-order, the topmost shape-matching sequences that lie at
\* most 20 levels below its argument and nothing deeper; when every
\* shape-matching sequence lies deeper than 20 levels it returns the empty
\* list.
C6_LocatorDepthBound ==
    pc = "returned" =>
        /\ \A d \in ffr_call_depths(arg, 0) : d <= 21
        /\ ret = ValuesAt(arg, InPreOrder(Topmost(arg, CodeShapeTest, 20)))
        /\ (\A p \in PathsOf(arg) : CodeShapeTest(At(arg, p)) => Len(p) > 20)
              => ret = <<>>

\* A chain of 21 one-element lists around a feature record: the walk reaches
\* depth 21, stops there and returns nothing.
C6_Witness ==
    /\ pc = "returned"
    /\ arg = Wrap(21, FeatureRecord(Str(FeatureIdA), None, List(<<>>)))
    /\ 21 \in ffr_call_depths(arg, 0)
    /\ ret = <<>>

(***************************************************************************)
(* Calls of find_coordinates                                               *)
(***************************************************************************)
\* A number of degrees, as whole degrees and millionths.
Degrees(whole, millionths) == whole * Scale + millionths

\* LatA and LatNear round to the same five decimals, LatFar to the next.
LatA == Degrees(48, 858370)

LatNear == Degrees(48, 858374)

LatFar == Degrees(48, 858376)

LngA == Degrees(2, 294480)

Pair(a, b) == List(<<a, b>>)

GeometryBases ==
    {Pair(Num(LatA), Num(LngA)),
     Pair(Num(90 * Scale), Num(180 * Scale)),
     Pair(Num(-90 * Scale), Num(-180 * Scale)),
     Pair(Num(90 * Scale + 1), Num(0)),
     Pair(Num(LatA), Num(-180 * Scale - 1)),
     Pair(Bool(TRUE), Bool(FALSE)),
     Pair(Num(LatA), Bool(TRUE)),
     Pair(Str(<<"4", "8">>), Str(<<"2">>)),
     Pair(None, Num(LngA)),
     \* two elements, not numbers: descended into
     Pair(Pair(Num(91 * Scale), Num(0)), Pair(Num(10 * Scale), Num(20 * Scale))),
     Pair(Pair(Num(LatA), Num(LngA)), Pair(Num(LatFar), Num(LngA))),
     List(<<Num(Scale), Num(2 * Scale), Num(3 * Scale)>>),
     List(<<List(<<Num(Scale), Num(2 * Scale), Num(3 * Scale)>>),
            Pair(Num(4 * Scale), Num(5 * Scale))>>),
     List(<<>>),
     Num(LatA),
     None}

GeometryDocs ==
    {Wrap(d, b) : d \in 0..MaxNest, b \in GeometryBases}
    \cup {List(<<Wrap(d, Pair(Num(LatA), Num(LngA))), b>>) :
             d \in 8..11, b \in GeometryBases}

CoordsInit ==
    /\ pc = "call"
    /\ arg \in GeometryDocs
    /\ ret = None
    /\ RunIdle

CallFindCoordinates ==
    /\ pc = "call"
    /\ ret' = find_coordinates(arg, 0)
    /\ pc' = "returned"
    /\ UNCHANGED <<arg, runVars>>

CoordsNext == CallFindCoordinates

SpecCoords == CoordsInit /\ [][CoordsNext]_vars

\* A sequence of exactly two numbers, a latitude and a longitude.  A boolean
\* is not a number.
IsLatLngPair(v) ==
    /\ IsList(v)
    /\ Len(v.c) = 2
    /\ v.c[1].t = "num" /\ v.c[2].t = "num"
    /\ -90 * Scale <= v.c[1].n /\ v.c[1].n <= 90 * Scale
    /\ -180 * Scale <= v.c[2].n /\ v.c[2].n <= 180 * Scale

LatLngPairsWithin(v, maxDepth) ==
    {p \in PathsOf(v) : Len(p) <= maxDepth /\ IsLatLngPair(At(v, p))}

\* C9 (as claimed): find_coordinates returns the first sequence in pre-order,
\* within 10 levels, of exactly two numbers (booleans, strings, null and
\* sequences excluded) in the latitude and longitude ranges, and nothing
\* when there is none.
C9_FirstMatchAsClaimed ==
    pc = "returned" =>
        LET found == LatLngPairsWithin(arg, 10)
        IN  IF found = {} THEN ret = None
            ELSE LET first == At(arg, InPreOrder(found)[1])
                 IN  ret = Tuple(<<first.c[1], first.c[2]>>)

(***************************************************************************)
(* Calls of extract_place_info                                             *)
(***************************************************************************)
\* How many field tuples a feature record's fields hold.
MaxFields == 2

Eiffel == <<"E", "i", "f", "f", "e", "l">>

Ejea == <<"E", "j", "e", "a">>

PlaceIdA == ChIJ \o <<"a">>

PlaceIdB == Ej \o <<"b">>

PlaceIdC == ChIJ \o <<"c">>

PlaceIdD == ChIJ \o <<"d">>

FieldOptions ==
    {List(<<Str(NameKey), List(<<Str(Eiffel)>>), Num(1)>>),
     List(<<Str(NameKey), List(<<Str(Ejea)>>), Num(1)>>),
     List(<<Str(NameKey), List(<<Str(<<>>)>>), Num(1)>>),
     List(<<Str(NameKey), List(<<>>), Num(1)>>),
     List(<<Str(NameKey), Str(Eiffel)>>),
     List(<<Str(NameKey)>>),
     List(<<Str(DescriptionKey), List(<<Str(<<"t", "a", "l", "l">>)>>), Num(1)>>),
     List(<<None, Str(PlaceIdA), Bool(TRUE)>>),
     List(<<None, Str(PlaceIdB), Bool(TRUE)>>),
     List(<<None, Str(<<"x", "y", "z">>), Bool(TRUE)>>),
     \* the nested encoding
     List(<<None, List(<<Str(PlaceIdC), Bool(TRUE)>>), Num(1)>>),
     \* two elements only
     List(<<None, Str(PlaceIdD)>>),
     \* a prefixed string 15 and 16 levels below the fields
     List(<<None, Wrap(13, Str(PlaceIdC))>>),
     List(<<None, Wrap(14, Str(PlaceIdC))>>),
     \* a string that is not in a tuple
     Str(PlaceIdD)}

RECURSIVE SeqsUpTo(_, _)

\* The sequences of at most n elements of S.
SeqsUpTo(S, n) ==
    IF n = 0 THEN {<<>>}
    ELSE LET shorter == SeqsUpTo(S, n - 1)
         IN  shorter \cup {Append(q, x) : q \in shorter, x \in S}

ExtractInputs ==
    {FeatureRecord(Str(FeatureIdA), geometry, List(fields)) :
        geometry \in {List(<<Pair(Num(LatA), Num(LngA))>>), None},
        fields \in SeqsUpTo(FieldOptions, MaxFields)}
    \cup {FeatureRecord(Str(FeatureIdA), None, fields) :
             fields \in {None, Str(NameKey), Num(1)}}

ExtractInit ==
    /\ pc = "call"
    /\ arg \in ExtractInputs
    /\ ret = None
    /\ RunIdle

CallExtractPlaceInfo ==
    /\ pc = "call"
    /\ ret' = extract_place_info(arg)
    /\ pc' = "returned"
    /\ UNCHANGED <<arg, runVars>>

ExtractNext == CallExtractPlaceInfo

SpecExtract == ExtractInit /\ [][ExtractNext]_vars

\* element 5 of a feature record
FieldsOf(feature_record) == feature_record.c[6]

\* The positions in the fields of the tuples of length >= 2 whose first
\* element is "name" and whose second is a non-empty sequence.
NameTuples(fields) ==
    {i \in DOMAIN fields.c :
        LET f == fields.c[i]
        IN  /\ IsList(f) /\ Len(f.c) >= 2
            /\ f.c[1] = Str(NameKey)
            /\ IsList(f.c[2]) /\ f.c[2].c # <<>>}

NameAt(fields, i) == fields.c[i].c[2].c[1]

Last(S) == CHOOSE i \in S : \A j \in S : j <= i

\* null, false, 0, the empty string and the empty sequence
Falsy(v) == v \in {None, Bool(FALSE), Num(0), Str(<<>>), List(<<>>)}

\* C7 (as claimed): extract_place_info emits a candidate exactly when the
\* fields are a sequence that holds a name tuple, and the candidate's name is
\* such a tuple's first value.
C7_NameAsClaimed ==
    pc = "returned" =>
        LET fields == FieldsOf(arg)
        IN  IF IsList(fields) /\ NameTuples(fields) # {}
            THEN /\ ret.t = "dict"
                 /\ \E i \in NameTuples(fields) : ret.name = NameAt(fields, i)
            ELSE ret = None

\* C7 (amended): extract_place_info emits a candidate exactly when the fields
\* are a sequence that holds a name tuple and the first value of the last
\* name tuple is not null, false, 0, the empty string or the empty sequence;
\* the candidate's name is that value.
C7_NameRequirement ==
    pc = "returned" =>
        LET fields == FieldsOf(arg)
        IN  IF /\ IsList(fields) /\ NameTuples(fields) # {}
               /\ ~Falsy(NameAt(fields, Last(NameTuples(fields))))
            THEN /\ ret.t = "dict"
                 /\ ret.name = NameAt(fields, Last(NameTuples(fields)))
            ELSE ret = None

\* Two name tuples, the last one with a usable name: one candidate, named by
\* the last tuple.
C7_Witness ==
    /\ pc = "returned"
    /\ Cardinality(NameTuples(FieldsOf(arg))) = 2
    /\ NameAt(FieldsOf(arg), 1) = Str(Ejea)
    /\ ret.t = "dict"
    /\ ret.name = Str(Eiffel)

\* The two prefix families, character by character.
IsPlaceIdString(v) ==
    /\ IsStr(v)
    /\ \/ Len(v.s) >= 4 /\ v.s[1] = "C" /\ v.s[2] = "h" /\ v.s[3] = "I" /\ v.s[4] = "J"
       \/ Len(v.s) >= 2 /\ v.s[1] = "E" /\ v.s[2] = "j"

\* The positions in the fields of the tuples with a null first element, at
\* least 3 elements and a prefixed string as second element.
PlaceIdTuples(fields) ==
    {i \in DOMAIN fields.c :
        LET f == fields.c[i]
        IN  /\ IsList(f) /\ Len(f.c) >= 3
            /\ f.c[1] = None
            /\ IsPlaceIdString(f.c[2])}

\* The paths of the prefixed strings at most maxDepth levels below the fields.
PlaceIdStringsWithin(fields, maxDepth) ==
    {p \in PathsOf(fields) : Len(p) <= maxDepth /\ IsPlaceIdString(At(fields, p))}

\* C8: a candidate's place_id is the second element of a place-id tuple when
\* the fields hold one (whatever prefixed strings come earlier in the
\* document); otherwise the first prefixed string in document order at most
\* 15 levels below the fields; otherwise None.  A place_id that is present
\* begins with "ChIJ" or "Ej".
C8_PlaceIdExtraction ==
    (pc = "returned" /\ ret.t = "dict") =>
        LET fields == FieldsOf(arg)
            tuples == PlaceIdTuples(fields)
            strings == PlaceIdStringsWithin(fields, 15)
        IN  /\ tuples # {} =>
                  \E i \in tuples : ret.place_id = fields.c[i].c[2]
            /\ (tuples = {} /\ strings # {}) =>
                  ret.place_id = At(fields, InPreOrder(strings)[1])
            /\ (tuples = {} /\ strings = {}) => ret.place_id = None
            /\ ret.place_id # None => IsPlaceIdString(ret.place_id)

\* An "Ej" tuple after a name that is itself a prefixed string: the tuple's
\* identifier is taken, not the first prefixed string of the document.
C8_Witness ==
    /\ pc = "returned"
    /\ ret.t = "dict"
    /\ ret.name = Str(Ejea)
    /\ PlaceIdTuples(FieldsOf(arg)) = {2}
    /\ ret.place_id = Str(PlaceIdB)

(***************************************************************************)
(* update_map_json as a step, and repeated calls of it                     *)
(***************************************************************************)
CatalogPaths == {"public", "data", "src"}

\* update_map_json(map_data, cands, all_places, map_path): the lookup, the
\* loop, the dump to output_path and, if it exists, to src/map.json.  What
\* json.dump writes, json.load reads back as the same mapping (sort_keys
\* changes the order of the keys only).
UpdateMapJson(cands) ==
    \E done \in {merge(map_data, cands)} :
        /\ places_with_ids' = cands
        /\ map_data' = done.map_data
        /\ counts' = [updated_count |-> done.updated_count,
                      already_has_count |-> done.already_has_count,
                      not_matched_count |-> done.not_matched_count]
        /\ ret' = done.updated_count
        /\ files' = [files EXCEPT
                        ![map_path] = done.map_data,
                        !.src = IF files.src # None THEN done.map_data ELSE None]
        /\ written' = written \cup {map_path}
                              \cup (IF files.src # None THEN {"src"} ELSE {})

\* How many candidates a call is given.
MaxCandidates == 2

PlaceIdOld == ChIJ \o <<"o", "l", "d">>

CandidateOptions ==
    {PlaceInfo(Str(FeatureIdA), Str(Eiffel), None, Num(LatA), Num(LngA), Str(PlaceIdA)),
     \* rounds to the same key, another identifier
     PlaceInfo(Str(FeatureIdB), Str(Ejea), None, Num(LatNear), Num(LngA), Str(PlaceIdB)),
     \* no geometry
     PlaceInfo(Str(FeatureIdA), Str(Eiffel), None, None, None, Str(PlaceIdC)),
     \* no identifier, at the next key
     PlaceInfo(Str(FeatureIdB), Str(Ejea), None, Num(LatFar), Num(LngA), None)}

CandidateLists == SeqsUpTo(CandidateOptions, MaxCandidates)

Slugs == {"eiffel-tower", "louvre"}

Sights == <<"s", "i", "g", "h", "t", "s">>

\* What convert-to-json.py always writes for a place.
BasePlace == [name |-> Str(Eiffel), id |-> Str(Eiffel), category |-> Str(Sights)]

With(place, key, value) == place @@ (key :> value)

Located(coordinates) == With(BasePlace, "coordinates", coordinates)

\* A place as it is, and with an identifier from an earlier run.
WithOrWithoutId(S) == S \cup {With(p, "googlePlaceId", Str(PlaceIdOld)) : p \in S}

\* The first place is at one of two keys or has no coordinates; the second
\* is at the first key, or its coordinates lack the latitude.
PlaceOptions(slug) ==
    IF slug = "eiffel-tower"
    THEN WithOrWithoutId({Located(List(<<Num(LngA), Num(LatNear)>>)),
                          Located(List(<<Num(LngA), Num(LatFar)>>)),
                          BasePlace})
    ELSE WithOrWithoutId({Located(List(<<Num(LngA), Num(LatNear)>>)),
                          Located(List(<<Num(LngA), None>>)),
                          Located(List(<<Num(LngA)>>))})

Categories == [sights |-> [name |-> Str(Sights), count |-> Num(2)]]

Catalogs ==
    {[places |-> ps, categories |-> Categories] :
        ps \in {f \in [Slugs -> UNION {PlaceOptions(x) : x \in Slugs}] :
                   \A x \in Slugs : f[x] \in PlaceOptions(x)}}

MergeInit ==
    /\ pc = "loaded"
    /\ arg = None
    /\ ret = 0
    /\ html = None
    /\ page_data = None
    /\ places = <<>>
    /\ places_with_ids = <<>>
    /\ map_data \in Catalogs
    /\ map_path = "public"
    /\ files = [public |-> map_data, data |-> None, src |-> map_data]
    /\ counts = ZeroCounts
    /\ error = "none"
    /\ start_files = NoFiles
    /\ written = {}
    /\ prev_updated = -1

CallUpdateMapJson ==
    /\ pc \in {"loaded", "merged"}
    /\ \E cands \in CandidateLists :
          /\ UpdateMapJson(cands)
          /\ prev_updated' = IF pc = "merged" /\ cands = places_with_ids
                             THEN counts.updated_count
                             ELSE -1
    /\ pc' = "merged"
    /\ UNCHANGED <<arg, html, page_data, places, map_path, error, start_files>>

MergeNext == CallUpdateMapJson

SpecMerge == MergeInit /\ [][MergeNext]_vars

\* A step that is a call of update_map_json.
IsMergeStep == pc' = "merged"

HasId(place_data) == "googlePlaceId" \in DOMAIN place_data

\* C1: a second call with the candidates of the call before it leaves the
\* catalog as that call left it and returns 0; the places the first call
\* updated are counted as already-has by the second.
C1_MergeIdempotent ==
    [][(IsMergeStep /\ pc = "merged" /\ places_with_ids' = places_with_ids) =>
          /\ map_data' = map_data
          /\ files'[map_path] = files[map_path]
          /\ ret' = 0
          /\ counts'.updated_count = 0
          /\ counts'.already_has_count =
                counts.already_has_count + counts.updated_count
          /\ counts'.not_matched_count = counts.not_matched_count]_vars

\* A second call with the same candidates, after a call that updated a place.
C1_Witness ==
    /\ pc = "merged"
    /\ prev_updated >= 1
    /\ counts.updated_count = 0
    /\ counts.already_has_count >= prev_updated

\* C2: a place that carries googlePlaceId keeps it, with the same value,
\* through every call, whatever the candidates.
C2_FirstWriteWins ==
    [][IsMergeStep =>
          \A slug \in DOMAIN map_data.places :
              HasId(map_data.places[slug]) =>
                  /\ HasId(map_data'.places[slug])
                  /\ map_data'.places[slug].googlePlaceId =
                        map_data.places[slug].googlePlaceId
                  /\ files'[map_path].places[slug].googlePlaceId =
                        map_data.places[slug].googlePlaceId]_vars

\* The coordinate key as the specification words it: (latitude, longitude),
\* each rounded to 5 places.
KeyOf(lat, lng) == <<RoundTo5(NumValue(lat)), RoundTo5(NumValue(lng))>>

\* The candidates of `cands` that have an identifier and both coordinates.
Usable(cands) ==
    {i \in DOMAIN cands :
        /\ cands[i].place_id # None
        /\ cands[i].lat # None
        /\ cands[i].lng # None}

\* The usable candidates at the key of a catalog place, whose coordinates are
\* stored as [longitude, latitude].
MatchesOf(place_data, cands) ==
    LET coords == place_data.coordinates.c
    IN  IF coords[1] = None \/ coords[2] = None THEN {}
        ELSE {i \in Usable(cands) :
                 KeyOf(cands[i].lat, cands[i].lng) = KeyOf(coords[2], coords[1])}

\* A place has stored coordinates: a coordinate list of at least two elements.
HasStoredPair(place_data) ==
    /\ "coordinates" \in DOMAIN place_data
    /\ Len(place_data.coordinates.c) >= 2

\* The outcome the specification gives a place with stored coordinates.
Classify(place_data, cands) ==
    IF MatchesOf(place_data, cands) = {} THEN "unmatched"
    ELSE IF HasId(place_data) THEN "already-has"
    ELSE "updated"

\* The outcome of every catalog place: "none" without stored coordinates.
Outcomes(catalog, cands) ==
    [slug \in DOMAIN catalog.places |->
        IF HasStoredPair(catalog.places[slug])
        THEN Classify(catalog.places[slug], cands)
        ELSE "none"]

PlacesIn(catalog, cands, class) ==
    {slug \in DOMAIN catalog.places : Outcomes(catalog, cands)[slug] = class}

Count(outcomes, class) ==
    Cardinality({slug \in DOMAIN outcomes : outcomes[slug] = class})

\* A candidate with another identifier at the key of a place that has one.
C2_Witness ==
    /\ pc = "merged"
    /\ \E slug \in PlacesIn(map_data, places_with_ids, "already-has") :
          /\ map_data.places[slug].googlePlaceId = Str(PlaceIdOld)
          /\ \E i \in MatchesOf(map_data.places[slug], places_with_ids) :
                places_with_ids[i].place_id # Str(PlaceIdOld)

\* What C4 says of the places with stored coordinates, and of the counters
\* but for their sum.
MergeClassification ==
    \E outcomes \in {Outcomes(map_data, places_with_ids')} :
        /\ counts'.updated_count = Count(outcomes, "updated")
        /\ counts'.already_has_count = Count(outcomes, "already-has")
        /\ counts'.not_matched_count = Count(outcomes, "unmatched")
        /\ \A slug \in DOMAIN outcomes :
              IF outcomes[slug] = "updated"
              THEN /\ HasId(map_data'.places[slug])
                   /\ \E i \in MatchesOf(map_data.places[slug], places_with_ids') :
                         map_data'.places[slug].googlePlaceId =
                            places_with_ids'[i].place_id
              ELSE map_data'.places[slug] = map_data.places[slug]

SumOfCounts(c) == c.updated_count + c.already_has_count + c.not_matched_count

\* C4 (as claimed): each place with stored coordinates takes exactly one of
\* the three outcomes, by the (lat, lng) key; the counters count the outcomes
\* and sum to the number of catalog places.
C4_ClassificationAsClaimed ==
    [][IsMergeStep =>
          /\ MergeClassification
          /\ SumOfCounts(counts') = Cardinality(DOMAIN map_data.places)]_vars

\* C4 (amended): as claimed, but the counters sum to the number of catalog
\* places that have stored coordinates (a coordinate list of at least two
\* elements); a place without them is counted by none of the three.
C4_Classification ==
    [][IsMergeStep =>
          /\ MergeClassification
          /\ SumOfCounts(counts') =
                Cardinality({slug \in DOMAIN map_data.places :
                                HasStoredPair(map_data.places[slug])})]_vars

\* One place updated, the other without coordinates: the counters sum to 1.
C4_Witness ==
    /\ pc = "merged"
    /\ counts.updated_count = 1
    /\ SumOfCounts(counts) = 1
    /\ \E slug \in DOMAIN map_data.places : ~HasStoredPair(map_data.places[slug])

\* C10: the lookup has an entry exactly at the keys of the usable candidates,
\* holding the identifier and the name of the last candidate at that key; a
\* matching place without an identifier receives that identifier.
C10_LookupLastWriteWins ==
    [][IsMergeStep =>
          \E cands \in {places_with_ids'} :
          \E place_id_lookup \in {build_lookup(cands, 1, EmptyLookup)} :
          \E keys \in {[i \in Usable(cands) |->
                          Tuple(<<Num(KeyOf(cands[i].lat, cands[i].lng)[1]),
                                  Num(KeyOf(cands[i].lat, cands[i].lng)[2])>>)]} :
              /\ DOMAIN place_id_lookup = {keys[i] : i \in DOMAIN keys}
              /\ \A k \in DOMAIN place_id_lookup :
                    \E last \in {Last({i \in DOMAIN keys : keys[i] = k})} :
                        place_id_lookup[k] = [place_id |-> cands[last].place_id,
                                              name |-> cands[last].name]
              /\ \A slug \in PlacesIn(map_data, cands, "updated") :
                    map_data'.places[slug].googlePlaceId =
                       cands[Last(MatchesOf(map_data.places[slug], cands))].place_id]_vars

\* Two usable candidates at one key with different identifiers: the place
\* there received the second one's.
C10_Witness ==
    /\ pc = "merged"
    /\ Len(places_with_ids) = 2
    /\ Usable(places_with_ids) = {1, 2}
    /\ places_with_ids[1].place_id = Str(PlaceIdA)
    /\ places_with_ids[2].place_id = Str(PlaceIdB)
    /\ counts.updated_count >= 1
    /\ \E slug \in DOMAIN map_data.places :
          /\ HasStoredPair(map_data.places[slug])
          /\ MatchesOf(map_data.places[slug], places_with_ids) = {1, 2}
          /\ map_data.places[slug].googlePlaceId = Str(PlaceIdB)

(***************************************************************************)
(* Calls of update_map_json on places that carry every field              *)
(***************************************************************************)
Louvre == <<"L", "o", "u", "v", "r", "e">>

Museums == <<"m", "u", "s", "e", "u", "m", "s">>

\* A place with the optional fields convert-to-json.py writes: a description
\* and a list of image links.
Described(place) ==
    With(With(place, "description", Str(Ejea)),
         "img", List(<<Str(Eiffel), Str(Louvre)>>))

\* The same place under another name, id and category.
Renamed(place) ==
    [place EXCEPT !.name = Str(Louvre), !.id = Str(Louvre),
                  !.category = Str(Museums)]

FrameCategories ==
    [sights |-> [name |-> Str(Sights), count |-> Num(1)],
     museums |-> [name |-> Str(Museums), count |-> Num(1)]]

\* The first place carries a description and images and is at the first
\* key, with or without an identifier, or has no coordinates; the second is
\* at the first or the next key, or its coordinates lack the latitude.
FramePlaceOptions(slug) ==
    IF slug = "eiffel-tower"
    THEN {Described(p) :
             p \in WithOrWithoutId({Located(List(<<Num(LngA), Num(LatNear)>>))})
                   \cup {BasePlace}}
    ELSE {Renamed(p) :
             p \in WithOrWithoutId({Located(List(<<Num(LngA), Num(LatNear)>>)),
                                    Located(List(<<Num(LngA), Num(LatFar)>>))})
                   \cup {Located(List(<<Num(LngA)>>))}}

FrameCatalogs ==
    {[places |-> ps, categories |-> FrameCategories] :
        ps \in {f \in [Slugs -> UNION {FramePlaceOptions(x) : x \in Slugs}] :
                   \A x \in Slugs : f[x] \in FramePlaceOptions(x)}}

FrameInit ==
    /\ pc = "loaded"
    /\ arg = None
    /\ ret = 0
    /\ html = None
    /\ page_data = None
    /\ places = <<>>
    /\ places_with_ids = <<>>
    /\ map_data \in FrameCatalogs
    /\ map_path = "public"
    /\ files = [public |-> map_data, data |-> None, src |-> map_data]
    /\ counts = ZeroCounts
    /\ error = "none"
    /\ start_files = NoFiles
    /\ written = {}
    /\ prev_updated = -1

FrameNext == CallUpdateMapJson

SpecFrame == FrameInit /\ [][FrameNext]_vars

\* The fields of a place other than the external identifier.
OtherFields(place_data) == DOMAIN place_data \ {"googlePlaceId"}

\* new is old, or old with the external identifier field added to it.
SameOrIdAdded(old, new) ==
    /\ OtherFields(new) = OtherFields(old)
    /\ \A k \in OtherFields(old) : new[k] = old[k]
    /\ HasId(old) => new = old
    /\ new # old => DOMAIN new = DOMAIN old \cup {"googlePlaceId"}

\* C11: a call of update_map_json adds or removes no place and no category,
\* changes no field of a place other than adding googlePlaceId to a place
\* that lacked it, leaves the categories mapping as it was, and leaves every
\* place counted as already-has or unmatched, and every place counted by no
\* counter, entirely unchanged; the file it writes holds that catalog.
C11_MergeFrame ==
    [][IsMergeStep =>
          \E outcomes \in {Outcomes(map_data, places_with_ids')} :
              /\ DOMAIN map_data' = DOMAIN map_data
              /\ map_data'.categories = map_data.categories
              /\ DOMAIN map_data'.places = DOMAIN map_data.places
              /\ \A slug \in DOMAIN map_data.places :
                    /\ SameOrIdAdded(map_data.places[slug], map_data'.places[slug])
                    /\ outcomes[slug] \in {"already-has", "unmatched", "none"} =>
                          map_data'.places[slug] = map_data.places[slug]
              /\ files'[map_path] = map_data'
              /\ files'.src = map_data']_vars

\* A call that gave an identifier to a place with a description and images,
\* next to a place it counted as already-has or unmatched.
C11_Witness ==
    /\ pc = "merged"
    /\ counts.updated_count = 1
    /\ counts.already_has_count + counts.not_matched_count = 1
    /\ "img" \in DOMAIN map_data.places["eiffel-tower"]
    /\ "description" \in DOMAIN map_data.places["eiffel-tower"]
    /\ HasId(map_data.places["eiffel-tower"])
    /\ map_data.places["eiffel-tower"].googlePlaceId # Str(PlaceIdOld)
    /\ map_data.places["louvre"].name = Str(Louvre)

(***************************************************************************)
(* main                                                                    *)
(***************************************************************************)
\* A feature record with one vertex, a name and, unless place_id is None, a
\* place-id tuple.
Feature(id, lat, lng, name, place_id) ==
    FeatureRecord(Str(id), List(<<Pair(Num(lat), Num(lng))>>),
        List(<<List(<<Str(NameKey), List(<<Str(name)>>), Num(1)>>)>>
             \o (IF place_id = None THEN <<>>
                 ELSE <<List(<<None, place_id, Bool(TRUE)>>)>>)))

\* layer[2] is the layer's name
Layer(features) == List(<<None, None, Str(Sights), List(features)>>)

\* pageData = [meta, map]; map[6] = layers
Page(layers) ==
    List(<<List(<<>>), List(<<None, None, None, None, None, None, List(layers)>>)>>)

FeatureA == Feature(FeatureIdA, LatA, LngA, Eiffel, Str(PlaceIdA))

FeatureB == Feature(FeatureIdB, LatNear, LngA, Ejea, Str(PlaceIdB))

FeatureNoId == Feature(FeatureIdB, LatFar, LngA, Eiffel, None)

PageDocs ==
    {Page(<<>>),
     Page(<<Layer(<<FeatureA>>)>>),
     Page(<<Layer(<<FeatureB>>), Layer(<<FeatureA>>)>>),
     Page(<<Layer(<<FeatureA, FeatureNoId>>), Str(Sights), Layer(<<FeatureB>>)>>),
     List(<<List(<<>>)>>),
     List(<<List(<<>>), None>>)}

\* The downloaded document, by what extract_page_data makes of it: which
\* form of the `var _pageData = ...;` assignment the searches find, whether
\* the rewritten text parses as JSON, and the value it parses to.
HtmlOptions ==
    {[assignment |-> "absent", parses |-> FALSE, value |-> None]}
    \cup {[assignment |-> a, parses |-> FALSE, value |-> None] :
             a \in {"quoted", "array"}}
    \cup {[assignment |-> a, parses |-> TRUE, value |-> d] :
             a \in {"quoted", "array"}, d \in PageDocs}

MainCatalogs ==
    {c \in Catalogs :
        /\ c.places["eiffel-tower"] \in
              WithOrWithoutId({Located(List(<<Num(LngA), Num(LatNear)>>))})
        /\ c.places["louvre"] \in
              {Located(List(<<Num(LngA), Num(LatNear)>>)), Located(List(<<Num(LngA)>>))}}

FileOptions ==
    {NoFiles}
    \cup {[public |-> c, data |-> c, src |-> c] : c \in MainCatalogs}
    \cup {[public |-> None, data |-> c, src |-> None] : c \in MainCatalogs}

\* The state of a run before its first step.
RunStart ==
    /\ page_data = None
    /\ places = <<>>
    /\ places_with_ids = <<>>
    /\ map_data = None
    /\ map_path = "none"
    /\ counts = ZeroCounts
    /\ error = "none"
    /\ written = {}
    /\ prev_updated = -1

Init ==
    /\ pc = "start"
    /\ arg = None
    /\ ret = 0
    /\ html \in HtmlOptions
    /\ files \in FileOptions
    /\ start_files = files
    /\ RunStart

\* `html = download_html(MYMAPS_URL)`: the document, or urlopen raises.
DownloadHtml ==
    /\ pc = "start"
    /\ \/ pc' = "downloaded" /\ UNCHANGED error
       \/ pc' = "failed" /\ error' = "URLError"
    /\ UNCHANGED <<arg, ret, html, page_data, places, places_with_ids, map_data,
                   map_path, files, counts, start_files, written, prev_updated>>

\* An extract_page_data that prints and dumps a parse error without raising
\* it again, and returns an empty list.
ExtractPageDataNoReraise ==
    /\ pc = "downloaded"
    /\ IF html.assignment = "absent"
       THEN /\ error' = "ValueError"
            /\ pc' = "failed"
            /\ UNCHANGED <<page_data, written>>
       ELSE IF ~html.parses
       THEN /\ error' = "JSONDecodeError"
            /\ written' = written \cup {"debug_pagedata.txt"}
            /\ page_data' = List(<<>>)
            /\ pc' = "parsed"
       ELSE /\ page_data' = html.value
            /\ pc' = "parsed"
            /\ UNCHANGED <<error, written>>
    /\ UNCHANGED <<arg, ret, html, places, places_with_ids, map_data, map_path,
                   files, counts, start_files, prev_updated>>

\* `page_data = extract_page_data(html)`
ExtractPageData ==
    /\ pc = "downloaded"
    /\ IF html.assignment = "absent"
       THEN /\ error' = "ValueError"
            /\ pc' = "failed"
            /\ UNCHANGED <<page_data, written>>
       ELSE IF ~html.parses
       THEN /\ error' = "JSONDecodeError"
            /\ written' = written \cup {"debug_pagedata.txt"}
            /\ pc' = "failed"
            /\ UNCHANGED page_data
       ELSE /\ page_data' = html.value
            /\ pc' = "parsed"
            /\ UNCHANGED <<error, written>>
    /\ UNCHANGED <<arg, ret, html, places, places_with_ids, map_data, map_path,
                   files, counts, start_files, prev_updated>>

\* `with open(debug_path, 'w') ...: json.dump(page_data, ...)`
SavePageData ==
    /\ pc = "parsed"
    /\ written' = written \cup {"pagedata_debug.json"}
    /\ pc' = "dumped"
    /\ UNCHANGED <<arg, ret, html, page_data, places, places_with_ids, map_data,
                   map_path, files, counts, error, start_files, prev_updated>>

\* `places = extract_places_with_ids(page_data)` and
\* `places_with_ids = [p for p in places if p.get('place_id')]`
ExtractPlaces ==
    /\ pc = "dumped"
    /\ places' = extract_places_with_ids(page_data)
    /\ places_with_ids' = SelectSeq(places', LAMBDA p : Truthy(p.place_id))
    /\ pc' = "extracted"
    /\ UNCHANGED <<arg, ret, html, page_data, map_data, map_path, files, counts,
                   error, start_files, written, prev_updated>>

\* `map_data, map_path = load_map_json()`: the public path first, then the
\* data path, else FileNotFoundError.
LoadMapJson ==
    /\ pc = "extracted"
    /\ IF files.public # None
       THEN map_data' = files.public /\ map_path' = "public"
                /\ pc' = "loaded" /\ UNCHANGED error
       ELSE IF files.data # None
       THEN map_data' = files.data /\ map_path' = "data"
                /\ pc' = "loaded" /\ UNCHANGED error
       ELSE error' = "FileNotFoundError" /\ pc' = "failed"
                /\ UNCHANGED <<map_data, map_path>>
    /\ UNCHANGED <<arg, ret, html, page_data, places, places_with_ids, files,
                   counts, start_files, written, prev_updated>>

\* `updated = update_map_json(map_data, places_with_ids, places, map_path)`
RunUpdateMapJson ==
    /\ pc = "loaded"
    /\ UpdateMapJson(places_with_ids)
    /\ pc' = "done"
    /\ UNCHANGED <<arg, html, page_data, places, map_path, error, start_files,
                   prev_updated>>

\* The script is run again, on the files the last run left.
RunAgain ==
    /\ pc \in {"done", "failed"}
    /\ pc' = "start"
    /\ html' \in HtmlOptions
    /\ start_files' = files
    /\ page_data' = None
    /\ places' = <<>>
    /\ places_with_ids' = <<>>
    /\ map_data' = None
    /\ map_path' = "none"
    /\ counts' = ZeroCounts
    /\ error' = "none"
    /\ written' = {}
    /\ prev_updated' = -1
    /\ ret' = 0
    /\ UNCHANGED <<arg, files>>

Next ==
    \/ DownloadHtml
    \/ ExtractPageData
    \/ SavePageData
    \/ ExtractPlaces
    \/ LoadMapJson
    \/ RunUpdateMapJson
    \/ RunAgain

Spec == Init /\ [][Next]_vars

\* C3: when extract_page_data fails, the run has ended with no catalog
\* loaded, no place modified and no catalog file written; a catalog file is
\* written only in a run whose normalization and extraction both completed.
C3_FatalBeforeMutation ==
    /\ error \in {"ValueError", "JSONDecodeError"} =>
          /\ pc = "failed"
          /\ map_data = None
          /\ map_path = "none"
          /\ files = start_files
          /\ written \cap CatalogPaths = {}
    /\ written \cap CatalogPaths # {} =>
          /\ error = "none"
          /\ html.parses
          /\ page_data = html.value
          /\ "pagedata_debug.json" \in written
          /\ places = extract_places_with_ids(page_data)

\* The rewritten text did not parse, with a catalog on disk that the run
\* never opened.
C3_Witness ==
    /\ pc = "failed"
    /\ error = "JSONDecodeError"
    /\ "debug_pagedata.txt" \in written
    /\ files.public # None
    /\ map_data = None

====
